---- MODULE Spec2Model ----
(***************************************************************************)
(* Feature lifecycle orchestration of the DSCInitialization reconciler:    *)
(* service mesh and authorization capabilities, their features, feature    *)
(* trackers and the capability conditions reported on the owner object.    *)
(***************************************************************************)
EXTENDS Integers, Sequences, FiniteSets, TLC

\* ------------------------------------------------------------------ bounds
MaxPasses == 2       \* reconciliation passes and handler runs in one behaviour
MaxBatch == 2        \* features in one Registry.Add batch
MaxComponents == 2   \* components in each readiness list of a control plane

\* ------------------------------------------------------- program constants
interval == 2        \* seconds between two readiness checks
duration == 300      \* seconds after which a readiness poll gives up

ServiceMeshOperator == "servicemeshoperator"
AuthorinoOperator == "authorino-operator"
ConfigMapMeshRef == "service-mesh-refs"
ConfigMapAuthRef == "auth-refs"

\* values of the DSCInitialization object the reconciler is bound to
DsciName == "default-dsci"
AppNamespace == "default"
ControlPlaneName == "data-science-smcp"
ControlPlaneNamespace == "istio-system"
AuthNamespace == "default-auth-provider"
AuthProviderName == "default-auth-provider"
AuthConfigSelector == "security.opendatahub.io/authorization-group=default"
Audiences == <<"https://kubernetes.default.svc", "odh">>

Namespaces == {ControlPlaneNamespace, AuthNamespace}
ManagementStates == {"Managed", "Unmanaged", "Removed"}

CapabilityServiceMesh == "CapabilityServiceMesh"
CapabilityServiceMeshAuthorization == "CapabilityServiceMeshAuthorization"
Capabilities == {CapabilityServiceMesh, CapabilityServiceMeshAuthorization}

\* ------------------------------------------------------------------ state
VARIABLES
  instance,    \* the DSCInitialization spec: service mesh state and metrics
  objects,     \* cluster objects written by features: key -> content
  trackers,    \* FeatureTracker records: feature name -> tracker
  conditions,  \* status conditions of the owner object: type -> condition
  registry,    \* a FeaturesRegistry under construction (sequence of names)
  lastAdd,     \* the last Registry.Add: its batch, its violations, the registry before
  passes,      \* number of passes run so far
  history,     \* per feature, how its most recent Apply went
  last,        \* the last operation: its answers, its outcome and its call log
  poll         \* a readiness poll in progress: its clock, its checks, its result

vars ==
  <<instance, objects, trackers, conditions, registry, lastAdd, passes, history, last, poll>>

Absent == [kind |-> "absent"]
NoTracker == [phase |-> "none"]
NoCondition == [status |-> "none"]
NoErr == [kind |-> "nil", feature |-> "", stage |-> ""]

Err(kind, feature, stage) == [kind |-> kind, feature |-> feature, stage |-> stage]
Failed(err) == err.kind # "nil"

\* Let(x, K) is K applied to the value of x, computed once
Let(x, K(_)) == CHOOSE y \in {K(v) : v \in {x}} : TRUE

\* ------------------------------------------------- the cluster's answers
\* What the cluster answers during one pass: operator subscriptions, the
\* ServiceMeshControlPlane object, pod readiness and call failures.
NotFound == [found |-> FALSE, components |-> FALSE, ready |-> 0, pending |-> 0, unready |-> 0]
NoStatus == [found |-> TRUE, components |-> FALSE, ready |-> 0, pending |-> 0, unready |-> 0]
Smcp(r, p, u) == [found |-> TRUE, components |-> TRUE, ready |-> r, pending |-> p, unready |-> u]
SmcpStates == {NotFound, NoStatus, Smcp(0, 0, 0), Smcp(1, 1, 0), Smcp(1, 0, 0)}

\* the ServiceMeshControlPlane objects a check can meet
ControlPlaneObjects ==
  {NotFound, NoStatus}
  \cup {Smcp(r, p, u) : r \in 0..MaxComponents, p \in 0..MaxComponents, u \in 0..MaxComponents}

Answers ==
  [smOp : BOOLEAN,                              \* servicemeshoperator subscription exists
   authorino : {"present", "absent", "error"},  \* authorino-operator subscription lookup
   smcp : SmcpStates,                           \* the control plane object
   unready : SUBSET Namespaces,                 \* namespaces with a pod that is not ready
   dataErr : {"nil", "ControlPlane", "Authorization"},  \* feature data creation failure
   onDeleteErr : BOOLEAN]                       \* the extension provider patch fails

\* ------------------------------------------------------- readiness poller
\* wait.PollUntilContextTimeout(ctx, interval, duration, false, check):
\* the first check runs one interval after the start, the last one before
\* the deadline; check(k) is the answer [ready, err] of the k-th check.
PollChecks == 1 .. ((duration - 1) \div interval)

PollUntilContextTimeout(check(_)) ==
  LET stops == {k \in PollChecks : check(k).ready \/ check(k).err # "nil"}
      first == CHOOSE k \in stops : \A j \in stops : k <= j
  IN IF stops = {} THEN [err |-> "timeout", checks |-> Cardinality(PollChecks), elapsed |-> duration]
     ELSE IF check(first).err # "nil"
          THEN [err |-> check(first).err, checks |-> first, elapsed |-> first * interval]
          ELSE [err |-> "nil", checks |-> first, elapsed |-> first * interval]

\* faulty variant: a control plane without any component counts as ready
CheckControlPlaneComponentReadinessNoneNeeded(smcpObj) ==
  IF ~smcpObj.found THEN [ready |-> FALSE, err |-> "failed to find Service Mesh Control Plane"]
  ELSE IF ~smcpObj.components
       THEN [ready |-> FALSE, err |-> "status conditions not found"]
       ELSE [ready |-> smcpObj.pending = 0 /\ smcpObj.unready = 0, err |-> "nil"]

CheckControlPlaneComponentReadiness(smcpObj) ==
  IF ~smcpObj.found THEN [ready |-> FALSE, err |-> "failed to find Service Mesh Control Plane"]
  ELSE IF ~smcpObj.components
       THEN [ready |-> FALSE, err |-> "status conditions not found"]
       ELSE [ready |-> smcpObj.pending = 0 /\ smcpObj.unready = 0 /\ smcpObj.ready > 0,
             err |-> "nil"]

\* pods of a namespace are ready when none of them is unready (also with no pod)
WaitForPodsToBeReady(ns, a) ==
  LET check(k) == [ready |-> ns \notin a.unready, err |-> "nil"]
  IN PollUntilContextTimeout(check).err

\* no poll was started yet
NoPoll ==
  [kind |-> "none", state |-> "idle", elapsed |-> 0, checks |-> 0, err |-> "nil",
   seen |-> [none |-> TRUE], answer |-> [ready |-> FALSE, err |-> "nil"],
   cancelled |-> FALSE]

\* ---------------------------------------------------------- cluster state
ObjectKeys ==
  {"ns/istio-system", "ns/default-auth-provider",
   "manifest/servicemesh", "manifest/metrics-collection",
   "manifest/authorino", "smcp/ext-provider", "manifest/authorino-injection",
   "cm/service-mesh-refs", "cm/auth-refs"}

Event(ev, who) == [ev |-> ev, who |-> who, ok |-> TRUE]
Failure(ev, who) == [ev |-> ev, who |-> who, ok |-> FALSE]

\* ------------------------------------------------------- feature builder
DSCIType == "DSCInitialization"

Define(name) ==
  [name |-> name, targetNamespace |-> "", source |-> [type |-> "", name |-> ""],
   owned |-> FALSE, enabledWhen |-> "always", manifests |-> {}, data |-> {},
   preconditions |-> <<>>, postconditions |-> <<>>, resources |-> <<>>,
   onDelete |-> "none"]

\* FeatureData.<key>.Extract(f): the data bag is read by key
Extract(f, key) == key \in f.data

\* strings.Join(elems, sep)
RECURSIVE Join(_, _)
Join(elems, sep) ==
  IF Len(elems) = 0 THEN ""
  ELSE IF Len(elems) = 1 THEN elems[1]
       ELSE elems[1] \o sep \o Join(Tail(elems), sep)

\* cluster.CreateOrUpdateConfigMap: created when absent, data replaced otherwise
CreateOrUpdateConfigMap(objs, name, data, owner) ==
  [objs EXCEPT !["cm/" \o name] = [kind |-> "ConfigMap", data |-> data, owner |-> owner]]

\* feature.OwnedBy(f): the owner reference put on what the feature creates
OwnedBy(f) == IF f.owned THEN f.source.name ELSE ""

\* cluster.CreateNamespace: an existing namespace is left as it is
CreateNamespace(objs, ns, owner) ==
  IF objs["ns/" \o ns] # Absent THEN objs
  ELSE [objs EXCEPT !["ns/" \o ns] = [kind |-> "Namespace", data |-> <<>>, owner |-> owner]]

\* ------------------------------------------- servicemesh resources.go
\* faulty variant: the config map is created, never updated
MeshRefsCreateOnly(f, objs) ==
  IF ~Extract(f, "ControlPlane")
  THEN [err |-> "DataNotFound", objects |-> objs]
  ELSE IF objs["cm/" \o ConfigMapMeshRef] # Absent
       THEN [err |-> "already exists", objects |-> objs]
       ELSE [err |-> "nil",
             objects |-> CreateOrUpdateConfigMap(objs, ConfigMapMeshRef,
                           <<ControlPlaneName, ControlPlaneNamespace>>, OwnedBy(f))]

MeshRefs(f, objs) ==
  IF ~Extract(f, "ControlPlane")
  THEN [err |-> "DataNotFound", objects |-> objs]
  ELSE [err |-> "nil",
        objects |-> CreateOrUpdateConfigMap(objs, ConfigMapMeshRef,
                      <<ControlPlaneName, ControlPlaneNamespace>>, OwnedBy(f))]

\* faulty variant: missing authorization data yields a config map of empty values
AuthRefsIgnoringMissingData(f, objs) ==
  IF ~Extract(f, "Authorization")
  THEN [err |-> "nil",
        objects |-> CreateOrUpdateConfigMap(objs, ConfigMapAuthRef, <<"", "", "">>, OwnedBy(f))]
  ELSE LET audiencesList == IF Len(Audiences) > 0 THEN Join(Audiences, ",") ELSE ""
       IN [err |-> "nil",
           objects |-> CreateOrUpdateConfigMap(objs, ConfigMapAuthRef,
                         <<audiencesList, AuthProviderName, AuthConfigSelector>>, OwnedBy(f))]

AuthRefs(f, objs) ==
  IF ~Extract(f, "Authorization")
  THEN [err |-> "DataNotFound", objects |-> objs]
  ELSE LET audiencesList == IF Len(Audiences) > 0 THEN Join(Audiences, ",") ELSE ""
       IN [err |-> "nil",
           objects |-> CreateOrUpdateConfigMap(objs, ConfigMapAuthRef,
                         <<audiencesList, AuthProviderName, AuthConfigSelector>>, OwnedBy(f))]

EnsureAuthNamespaceExists(f, objs) ==
  IF ~Extract(f, "Authorization")
  THEN [err |-> "DataNotFound", objects |-> objs]
  ELSE [err |-> "nil", objects |-> CreateNamespace(objs, AuthNamespace, OwnedBy(f))]

\* feature.EnsureOperatorIsInstalled(name): the subscription must exist
EnsureOperatorIsInstalled(name, a) ==
  IF name = ServiceMeshOperator
  THEN (IF a.smOp THEN "nil" ELSE "operator not installed")
  ELSE (IF a.authorino = "present" THEN "nil" ELSE "operator not installed")

\* faulty variant: the missing subscription is not reported
EnsureServiceMeshOperatorInstalledSwallowed(f, a) == "nil"

EnsureServiceMeshOperatorInstalled(f, a) ==
  IF EnsureOperatorIsInstalled(ServiceMeshOperator, a) # "nil"
  THEN "failed to find the pre-requisite Service Mesh Operator subscription"
  ELSE "nil"

WaitForControlPlaneToBeReady(f, a) ==
  IF ~Extract(f, "ControlPlane") THEN "DataNotFound"
  ELSE LET check(k) == CheckControlPlaneComponentReadiness(a.smcp)
       IN PollUntilContextTimeout(check).err

\* the poll of WaitForControlPlaneToBeReady: whether it started, and its checks
ControlPlanePoll(f, a) ==
  IF ~Extract(f, "ControlPlane") THEN [err |-> "DataNotFound", polled |-> FALSE, checks |-> 0]
  ELSE Let(PollUntilContextTimeout(LAMBDA k : CheckControlPlaneComponentReadiness(a.smcp)),
           LAMBDA p : [err |-> p.err, polled |-> TRUE, checks |-> p.checks])

\* faulty variant: the control plane is awaited before the operator is checked
EnsureServiceMeshInstalledRunPollFirst(f, a) ==
  Let(ControlPlanePoll(f, a), LAMBDA p :
    IF p.err # "nil"
    THEN [err |-> IF ~Extract(f, "ControlPlane") THEN "failed to get control plane struct"
                  ELSE "service mesh control plane is not ready",
          polled |-> p.polled, checks |-> p.checks]
    ELSE [err |-> EnsureServiceMeshOperatorInstalled(f, a),
          polled |-> p.polled, checks |-> p.checks])

\* EnsureServiceMeshInstalled with the steps it took: its error, whether the
\* readiness poll was started and how many checks the poll made
EnsureServiceMeshInstalledRun(f, a) ==
  IF EnsureServiceMeshOperatorInstalled(f, a) # "nil"
  THEN [err |-> EnsureServiceMeshOperatorInstalled(f, a), polled |-> FALSE, checks |-> 0]
  ELSE Let(ControlPlanePoll(f, a), LAMBDA p :
         IF p.err # "nil"
         THEN [err |-> IF ~Extract(f, "ControlPlane") THEN "failed to get control plane struct"
                       ELSE "service mesh control plane is not ready",
               polled |-> p.polled, checks |-> p.checks]
         ELSE [err |-> "nil", polled |-> p.polled, checks |-> p.checks])

EnsureServiceMeshInstalled(f, a) == EnsureServiceMeshInstalledRun(f, a).err

\* -------------------------------------------------- feature definitions
Act(fn, arg) == [fn |-> fn, arg |-> arg]

\* the precondition of "enable-proxy-injection-in-authorino-deployment"
waitForAuthorizationPods(f, a) ==
  IF ~Extract(f, "Authorization")
  THEN "failed trying to resolve authorization provider namespace"
  ELSE WaitForPodsToBeReady(AuthNamespace, a)

\* one precondition, postcondition or resource producer of a feature
RunAction(act, f, a, objs) ==
  CASE act.fn = "EnsureServiceMeshOperatorInstalled" ->
         [err |-> EnsureServiceMeshOperatorInstalled(f, a), objects |-> objs]
    [] act.fn = "EnsureServiceMeshInstalled" ->
         [err |-> EnsureServiceMeshInstalled(f, a), objects |-> objs]
    [] act.fn = "EnsureOperatorIsInstalled" ->
         [err |-> EnsureOperatorIsInstalled(act.arg, a), objects |-> objs]
    [] act.fn = "CreateNamespaceIfNotExists" ->
         [err |-> "nil", objects |-> CreateNamespace(objs, act.arg, "")]
    [] act.fn = "WaitForPodsToBeReady" ->
         [err |-> WaitForPodsToBeReady(act.arg, a), objects |-> objs]
    [] act.fn = "EnsureAuthNamespaceExists" -> EnsureAuthNamespaceExists(f, objs)
    [] act.fn = "waitForAuthorizationPods" ->
         [err |-> waitForAuthorizationPods(f, a), objects |-> objs]
    [] act.fn = "MeshRefs" -> MeshRefs(f, objs)
    [] act.fn = "AuthRefs" -> AuthRefs(f, objs)
    [] act.fn = "alwaysFail" -> [err |-> "during test always fail", objects |-> objs]

\* faulty variant: the metrics feature is enabled whatever the spec says
meshMetricsCollectionAlways(inst) == TRUE

\* the EnabledWhen predicate of a feature
meshMetricsCollection(inst) == inst.metrics = "Istio"

Enabled(f, inst) ==
  IF f.enabledWhen = "meshMetricsCollection" THEN meshMetricsCollection(inst) ELSE TRUE

\* faulty variant: the pods are awaited before the manifests are applied
meshControlPlaneCreationPodsFirst ==
  [Define("mesh-control-plane-creation") EXCEPT
     !.manifests = {"manifest/servicemesh"},
     !.data = {"ControlPlane"},
     !.preconditions = << Act("EnsureServiceMeshOperatorInstalled", ""),
                          Act("CreateNamespaceIfNotExists", ControlPlaneNamespace),
                          Act("WaitForPodsToBeReady", ControlPlaneNamespace) >>]

\* the features registered by serviceMeshCapabilityFeatures
meshControlPlaneCreation ==
  [Define("mesh-control-plane-creation") EXCEPT
     !.manifests = {"manifest/servicemesh"},
     !.data = {"ControlPlane"},
     !.preconditions = << Act("EnsureServiceMeshOperatorInstalled", ""),
                          Act("CreateNamespaceIfNotExists", ControlPlaneNamespace) >>,
     !.postconditions = << Act("WaitForPodsToBeReady", ControlPlaneNamespace) >>]

meshMetricsCollectionFeature ==
  [Define("mesh-metrics-collection") EXCEPT
     !.enabledWhen = "meshMetricsCollection",
     !.manifests = {"manifest/metrics-collection"},
     !.data = {"ControlPlane"},
     !.preconditions = << Act("EnsureServiceMeshInstalled", "") >>]

meshSharedConfigmap ==
  [Define("mesh-shared-configmap") EXCEPT
     !.resources = << Act("MeshRefs", ""), Act("AuthRefs", "") >>,
     !.data = {"ControlPlane", "Authorization"}]

\* faulty variant: the shared config map feature registered first
serviceMeshFeatureListReordered ==
  << meshSharedConfigmap, meshControlPlaneCreation, meshMetricsCollectionFeature >>

\* faulty variant: the metrics feature registered before the control plane
serviceMeshFeatureListMetricsFirst ==
  << meshMetricsCollectionFeature, meshControlPlaneCreation, meshSharedConfigmap >>

\* the batch given to registry.Add, in registration order
serviceMeshFeatureList ==
  << meshControlPlaneCreation, meshMetricsCollectionFeature, meshSharedConfigmap >>

\* faulty variant: the feature is registered without its OnDelete action
meshControlPlaneExternalAuthzNoOnDelete ==
  [Define("mesh-control-plane-external-authz") EXCEPT
     !.manifests = {"manifest/authorino", "smcp/ext-provider"},
     !.data = {"ControlPlane", "Authorization"},
     !.preconditions = << Act("EnsureOperatorIsInstalled", AuthorinoOperator),
                          Act("EnsureServiceMeshInstalled", ""),
                          Act("EnsureAuthNamespaceExists", "") >>,
     !.postconditions = << Act("WaitForPodsToBeReady", ControlPlaneNamespace) >>]

\* the features registered by authorizationFeatures
meshControlPlaneExternalAuthz ==
  [Define("mesh-control-plane-external-authz") EXCEPT
     !.manifests = {"manifest/authorino", "smcp/ext-provider"},
     !.data = {"ControlPlane", "Authorization"},
     !.preconditions = << Act("EnsureOperatorIsInstalled", AuthorinoOperator),
                          Act("EnsureServiceMeshInstalled", ""),
                          Act("EnsureAuthNamespaceExists", "") >>,
     !.postconditions = << Act("WaitForPodsToBeReady", ControlPlaneNamespace) >>,
     !.onDelete = "RemoveExtensionProvider"]

enableProxyInjectionInAuthorinoDeployment ==
  [Define("enable-proxy-injection-in-authorino-deployment") EXCEPT
     !.manifests = {"manifest/authorino-injection"},
     !.preconditions = << Act("waitForAuthorizationPods", "") >>,
     !.data = {"ControlPlane", "Authorization"}]

authorizationFeatureList ==
  << meshControlPlaneExternalAuthz, enableProxyInjectionInAuthorinoDeployment >>

\* the features of the feature tracking tests
testFeatureList(test) ==
  CASE test = "always-working-feature" -> << Define("always-working-feature") >>
    [] test = "empty-feature" -> << Define("empty-feature") >>
    [] test = "precondition-fail" ->
         << [Define("precondition-fail") EXCEPT !.preconditions = << Act("alwaysFail", "") >>] >>
    [] test = "post-condition-failure" ->
         << [Define("post-condition-failure") EXCEPT !.postconditions = << Act("alwaysFail", "") >>] >>

Tests == {"always-working-feature", "empty-feature", "precondition-fail", "post-condition-failure"}

\* faulty variant: the feature that declares no owner is given one
emptyFeatNoOwnerOwned ==
  [Define("empty-feat-no-owner") EXCEPT
     !.source = [type |-> DSCIType, name |-> DsciName],
     !.targetNamespace = AppNamespace,
     !.owned = TRUE]

\* the features the owner reference tests create and apply on their own
emptyFeatNoOwner ==
  [Define("empty-feat-no-owner") EXCEPT
     !.source = [type |-> DSCIType, name |-> DsciName],
     !.targetNamespace = AppNamespace]

emptyFeatWithOwner ==
  [Define("empty-feat-with-owner") EXCEPT
     !.source = [type |-> DSCIType, name |-> DsciName],
     !.targetNamespace = AppNamespace,
     !.owned = TRUE]

OwnerTests == {"empty-feat-with-owner", "empty-feat-no-owner"}

ownerTestFeature(test) ==
  IF test = "empty-feat-with-owner" THEN emptyFeatWithOwner ELSE emptyFeatNoOwner

FeatureNames ==
  {"mesh-control-plane-creation", "mesh-metrics-collection", "mesh-shared-configmap",
   "mesh-control-plane-external-authz", "enable-proxy-injection-in-authorino-deployment"}
  \cup Tests \cup OwnerTests

\* ------------------------------------------------------ FeaturesRegistry
\* the violations of a batch against a registry: empty and duplicate names
Violations(reg, batch) ==
  {[index |-> i, name |-> batch[i].name, why |-> "empty"] :
      i \in {j \in 1..Len(batch) : batch[j].name = ""}}
  \cup
  {[index |-> i, name |-> batch[i].name, why |-> "duplicate"] :
      i \in {j \in 1..Len(batch) :
               /\ batch[j].name # ""
               /\ \/ \E k \in 1..Len(batch) : k # j /\ batch[k].name = batch[j].name
                  \/ \E k \in 1..Len(reg) : reg[k].name = batch[j].name}}

\* faulty variant: the valid features of an invalid batch are registered
AddValidOnes(reg, batch) ==
  LET v == Violations(reg, batch)
  IN [violations |-> v,
      registry |-> reg \o SelectSeq(batch, LAMBDA f : \A x \in v : x.name # f.name)]

\* Registry.Add(features...): all of the batch or none of it
Add(reg, batch) ==
  LET v == Violations(reg, batch)
  IN IF v # {} THEN [violations |-> v, registry |-> reg]
     ELSE [violations |-> {}, registry |-> reg \o batch]

\* -------------------------------------------------------- FeatureTracker
\* faulty variant: the tracker reports Available whatever the phase
TrackerAlwaysAvailable(f, phase, reason) ==
  [phase |-> phase,
   available |-> [status |-> "True", reason |-> reason],
   degraded |-> [status |-> IF phase = "Ready" THEN "False" ELSE "True", reason |-> reason],
   source |-> f.source,
   appNamespace |-> f.targetNamespace,
   owners |-> IF f.owned THEN {f.source.name} ELSE {}]

Tracker(f, phase, reason) ==
  [phase |-> phase,
   available |-> [status |-> IF phase = "Ready" THEN "True" ELSE "False", reason |-> reason],
   degraded |-> [status |-> IF phase = "Ready" THEN "False" ELSE "True", reason |-> reason],
   source |-> f.source,
   appNamespace |-> f.targetNamespace,
   owners |-> IF f.owned THEN {f.source.name} ELSE {}]

UpsertTracker(w, f, phase, reason) ==
  [w EXCEPT !.trackers[f.name] = Tracker(f, phase, reason),
            !.log = Append(@, Event("tracker", f.name))]

\* --------------------------------------------------------------- Feature
\* actions of one stage in order, stopping at the first failure
RECURSIVE RunActions(_, _, _, _, _)
RunActions(acts, stage, f, a, w) ==
  IF acts = <<>> THEN [err |-> "nil", w |-> w]
  ELSE Let(RunAction(Head(acts), f, a, w.objects), LAMBDA r :
       Let([w EXCEPT !.objects = r.objects,
                     !.log = Append(@, IF r.err = "nil" THEN Event(stage, f.name)
                                       ELSE Failure(stage, f.name))], LAMBDA w1 :
         IF r.err # "nil" THEN [err |-> r.err, w |-> w1]
         ELSE RunActions(Tail(acts), stage, f, a, w1)))

\* the feature's manifests rendered and applied, tagged with the owner
ApplyManifests(f, w) ==
  IF f.manifests = {} THEN w
  ELSE [w EXCEPT
          !.objects = [k \in ObjectKeys |->
                         IF k \in f.manifests
                         THEN [kind |-> "Manifest", data |-> <<>>, owner |-> OwnedBy(f)]
                         ELSE @[k]],
          !.log = Append(@, Event("manifests", f.name))]

\* faulty variant: a feature that EnabledWhen skips still gets a tracker
FeatureApplyTrackingSkipped(f, inst, a, w0) ==
  Let([w0 EXCEPT !.log = Append(@, Event("apply", f.name))], LAMBDA w :
    IF ~Enabled(f, inst)
    THEN [err |-> NoErr,
          w |-> UpsertTracker([w EXCEPT !.log = Append(@, Event("skip", f.name))],
                              f, "Ready", "FeatureCreated")]
    ELSE
      Let(RunActions(f.preconditions, "precondition", f, a, w), LAMBDA pre :
        IF pre.err # "nil"
        THEN [err |-> Err("PreConditions", f.name, pre.err),
              w |-> UpsertTracker(pre.w, f, "Error", "PreConditions")]
        ELSE
          Let(ApplyManifests(f, pre.w), LAMBDA applied :
          Let(RunActions(f.resources, "resource", f, a, applied), LAMBDA res :
            IF res.err # "nil"
            THEN [err |-> Err("Resources", f.name, res.err), w |-> res.w]
            ELSE
              Let(RunActions(f.postconditions, "postcondition", f, a, res.w), LAMBDA post :
                IF post.err # "nil"
                THEN [err |-> Err("PostConditions", f.name, post.err),
                      w |-> UpsertTracker(post.w, f, "Error", "PostConditions")]
                ELSE [err |-> NoErr,
                      w |-> UpsertTracker(post.w, f, "Ready", "FeatureCreated")])))))

\* Feature.Apply
FeatureApply(f, inst, a, w0) ==
  Let([w0 EXCEPT !.log = Append(@, Event("apply", f.name))], LAMBDA w :
    IF ~Enabled(f, inst)
    THEN [err |-> NoErr, w |-> [w EXCEPT !.log = Append(@, Event("skip", f.name))]]
    ELSE
      Let(RunActions(f.preconditions, "precondition", f, a, w), LAMBDA pre :
        IF pre.err # "nil"
        THEN [err |-> Err("PreConditions", f.name, pre.err),
              w |-> UpsertTracker(pre.w, f, "Error", "PreConditions")]
        ELSE
          Let(ApplyManifests(f, pre.w), LAMBDA applied :
          Let(RunActions(f.resources, "resource", f, a, applied), LAMBDA res :
            IF res.err # "nil"
            THEN [err |-> Err("Resources", f.name, res.err), w |-> res.w]
            ELSE
              Let(RunActions(f.postconditions, "postcondition", f, a, res.w), LAMBDA post :
                IF post.err # "nil"
                THEN [err |-> Err("PostConditions", f.name, post.err),
                      w |-> UpsertTracker(post.w, f, "Error", "PostConditions")]
                ELSE [err |-> NoErr,
                      w |-> UpsertTracker(post.w, f, "Ready", "FeatureCreated")])))))

\* servicemesh.RemoveExtensionProvider: the onDelete action of the authz feature
RemoveExtensionProvider(a, w) ==
  IF a.onDeleteErr THEN [err |-> "patch failed", w |-> w]
  ELSE [err |-> "nil", w |-> [w EXCEPT !.objects["smcp/ext-provider"] = Absent]]

\* Feature.Delete
FeatureDelete(f, a, w0) ==
  Let([w0 EXCEPT !.log = Append(@, Event("delete", f.name))], LAMBDA w :
  Let(IF f.onDelete = "RemoveExtensionProvider"
      THEN Let(RemoveExtensionProvider(a, w), LAMBDA r :
             [err |-> r.err,
              w |-> [r.w EXCEPT !.log = Append(@, IF r.err = "nil" THEN Event("onDelete", f.name)
                                                  ELSE Failure("onDelete", f.name))]])
      ELSE [err |-> "nil", w |-> w], LAMBDA cleaned :
    IF cleaned.err # "nil"
    THEN [err |-> Err("OnDelete", f.name, cleaned.err), w |-> cleaned.w]
    ELSE [err |-> NoErr,
          w |-> [cleaned.w EXCEPT !.trackers[f.name] = NoTracker,
                                  !.log = Append(@, Event("removeTracker", f.name))]]))

\* ------------------------------------------------------ FeaturesHandler
\* faulty variant: the owner is bound, its name is not recorded as the source
BindWithoutSource(f) ==
  [f EXCEPT !.targetNamespace = AppNamespace,
            !.source = [type |-> DSCIType, name |-> ""],
            !.owned = TRUE]

\* ClusterFeaturesHandler binds the owner: source, target namespace, owner
Bind(f) ==
  [f EXCEPT !.targetNamespace = AppNamespace,
            !.source = [type |-> DSCIType, name |-> DsciName],
            !.owned = TRUE]

BindAll(fs) == [i \in 1..Len(fs) |-> Bind(fs[i])]

\* the FeaturesProvider of the service mesh capability
serviceMeshCapabilityFeatures(inst, a) ==
  IF a.dataErr = "ControlPlane"
  THEN [err |-> "failed to create control plane feature data", features |-> <<>>]
  ELSE IF a.dataErr = "Authorization"
       THEN [err |-> "failed to create authorization feature data", features |-> <<>>]
       ELSE LET r == Add(<<>>, serviceMeshFeatureList)
            IN [err |-> IF r.violations = {} THEN "nil" ELSE "invalid features",
                features |-> r.registry]

\* the FeaturesProvider of the authorization capability
authorizationFeatures(inst, a) ==
  IF a.dataErr = "ControlPlane"
  THEN [err |-> "failed to create control plane feature data", features |-> <<>>]
  ELSE IF a.dataErr = "Authorization"
       THEN [err |-> "failed to create authorization feature data", features |-> <<>>]
       ELSE LET r == Add(<<>>, authorizationFeatureList)
            IN [err |-> IF r.violations = {} THEN "nil" ELSE "invalid features",
                features |-> r.registry]

\* the FeaturesProvider of a feature tracking test
testFeatures(test) ==
  LET r == Add(<<>>, testFeatureList(test))
  IN [err |-> IF r.violations = {} THEN "nil" ELSE "invalid features", features |-> r.registry]

Provider(p, inst, a) ==
  CASE p = "serviceMesh" -> serviceMeshCapabilityFeatures(inst, a)
    [] p = "authorization" -> authorizationFeatures(inst, a)
    [] OTHER -> testFeatures(p)

ClusterFeaturesHandler(p) == [kind |-> "cluster", provider |-> p]
EmptyFeaturesHandler == [kind |-> "empty", provider |-> ""]

RECURSIVE ApplyFeatures(_, _, _, _)
ApplyFeatures(fs, inst, a, w) ==
  IF fs = <<>> THEN [err |-> NoErr, w |-> w]
  ELSE Let(FeatureApply(Head(fs), inst, a, w), LAMBDA r :
         IF Failed(r.err) THEN r ELSE ApplyFeatures(Tail(fs), inst, a, r.w))

RECURSIVE DeleteFeatures(_, _, _)
DeleteFeatures(fs, a, w) ==
  IF fs = <<>> THEN [err |-> NoErr, w |-> w]
  ELSE Let(FeatureDelete(Head(fs), a, w), LAMBDA r :
         IF Failed(r.err) THEN r ELSE DeleteFeatures(Tail(fs), a, r.w))

\* FeaturesHandler.Apply
HandlerApply(h, inst, a, w) ==
  IF h.kind = "empty" THEN [err |-> NoErr, w |-> w]
  ELSE Let(Provider(h.provider, inst, a), LAMBDA p :
         IF p.err # "nil" THEN [err |-> Err("Provider", "", p.err), w |-> w]
         ELSE ApplyFeatures(BindAll(p.features), inst, a, w))

\* FeaturesHandler.Delete
HandlerDelete(h, inst, a, w) ==
  IF h.kind = "empty" THEN [err |-> NoErr, w |-> w]
  ELSE Let(Provider(h.provider, inst, a), LAMBDA p :
         IF p.err # "nil" THEN [err |-> Err("Provider", "", p.err), w |-> w]
         ELSE DeleteFeatures(BindAll(p.features), a, w))

\* --------------------------------------------------- HandlerWithReporter
Condition(type, status, reason) == [type |-> type, status |-> status, reason |-> reason]

\* the condition the reporter writes for an outcome
ReportCondition(initial, err) ==
  IF Failed(err) THEN [initial EXCEPT !.status = "False"] ELSE initial

Report(cap, r) ==
  [err |-> r.err,
   w |-> [r.w EXCEPT !.conditions[cap.condition.type] = ReportCondition(cap.condition, r.err),
                     !.log = Append(@, Event("report", cap.condition.type))]]

NewHandlerWithReporter(h, condition) == [handler |-> h, condition |-> condition]

\* HandlerWithReporter.Apply
CapabilityApply(cap, inst, a, w0) ==
  Let([w0 EXCEPT !.log = Append(@, Event("capabilityApply", cap.condition.type))], LAMBDA w :
  Let(HandlerApply(cap.handler, inst, a, w), LAMBDA r : Report(cap, r)))

\* HandlerWithReporter.Delete
CapabilityDelete(cap, inst, a, w0) ==
  Let([w0 EXCEPT !.log = Append(@, Event("capabilityDelete", cap.condition.type))], LAMBDA w :
  Let(HandlerDelete(cap.handler, inst, a, w), LAMBDA r : Report(cap, r)))

\* ------------------------------------------ DSCInitializationReconciler
ConfiguredReason == "Configured"
RemovedReason == "Removed"
MissingOperatorReason == "MissingOperator"

serviceMeshCondition(reason) == Condition(CapabilityServiceMesh, "True", reason)
authorizationCondition(reason) == Condition(CapabilityServiceMeshAuthorization, "True", reason)

\* faulty variant: the reporter is given the condition of the other capability
serviceMeshCapabilityOtherCondition(initialCondition) ==
  NewHandlerWithReporter(ClusterFeaturesHandler("serviceMesh"),
                         authorizationCondition(initialCondition.reason))

serviceMeshCapability(initialCondition) ==
  NewHandlerWithReporter(ClusterFeaturesHandler("serviceMesh"), initialCondition)

\* faulty variant: the real handler is used whether or not the operator is there
authorizationCapabilityUnchecked(a, condition) ==
  IF a.authorino = "error"
  THEN [err |-> Err("List", "", "failed to list subscriptions"),
        cap |-> NewHandlerWithReporter(EmptyFeaturesHandler, condition)]
  ELSE [err |-> NoErr,
        cap |-> NewHandlerWithReporter(ClusterFeaturesHandler("authorization"), condition)]

\* faulty variant: without the operator the empty handler reports the given condition
authorizationCapabilityKeepingCondition(a, condition) ==
  IF a.authorino = "error"
  THEN [err |-> Err("List", "", "failed to list subscriptions"),
        cap |-> NewHandlerWithReporter(EmptyFeaturesHandler, condition)]
  ELSE IF a.authorino # "present"
       THEN [err |-> NoErr, cap |-> NewHandlerWithReporter(EmptyFeaturesHandler, condition)]
       ELSE [err |-> NoErr,
             cap |-> NewHandlerWithReporter(ClusterFeaturesHandler("authorization"), condition)]

\* cluster.SubscriptionExists for authorino-operator decides the handler
authorizationCapability(a, condition) ==
  IF a.authorino = "error"
  THEN [err |-> Err("List", "", "failed to list subscriptions"),
        cap |-> NewHandlerWithReporter(EmptyFeaturesHandler, condition)]
  ELSE IF a.authorino # "present"
       THEN [err |-> NoErr,
             cap |-> NewHandlerWithReporter(EmptyFeaturesHandler,
                       Condition(CapabilityServiceMeshAuthorization, "False", MissingOperatorReason))]
       ELSE [err |-> NoErr,
             cap |-> NewHandlerWithReporter(ClusterFeaturesHandler("authorization"), condition)]

\* faulty variant: the loop goes on after a failed capability, returning its error
RECURSIVE ApplyCapabilitiesContinuing(_, _, _, _)
ApplyCapabilitiesContinuing(caps, inst, a, w) ==
  IF caps = <<>> THEN [err |-> NoErr, w |-> w]
  ELSE Let(CapabilityApply(Head(caps), inst, a, w), LAMBDA r :
       Let(ApplyCapabilitiesContinuing(Tail(caps), inst, a, r.w), LAMBDA rest :
         IF Failed(r.err) THEN [err |-> r.err, w |-> rest.w] ELSE rest))

RECURSIVE ApplyCapabilities(_, _, _, _)
ApplyCapabilities(caps, inst, a, w) ==
  IF caps = <<>> THEN [err |-> NoErr, w |-> w]
  ELSE Let(CapabilityApply(Head(caps), inst, a, w), LAMBDA r :
         IF Failed(r.err) THEN r ELSE ApplyCapabilities(Tail(caps), inst, a, r.w))

RECURSIVE DeleteCapabilities(_, _, _, _)
DeleteCapabilities(caps, inst, a, w) ==
  IF caps = <<>> THEN [err |-> NoErr, w |-> w]
  ELSE Let(CapabilityDelete(Head(caps), inst, a, w), LAMBDA r :
         IF Failed(r.err) THEN r ELSE DeleteCapabilities(Tail(caps), inst, a, r.w))

\* faulty variant: the capabilities are deleted in state Removed as well
removeServiceMeshAlsoRemoved(inst, a, w) ==
  IF inst.serviceMesh = "nil" THEN [err |-> NoErr, w |-> w]
  ELSE IF inst.serviceMesh \in {"Managed", "Removed"}
       THEN Let(serviceMeshCapability(serviceMeshCondition(RemovedReason)), LAMBDA sm :
            Let(authorizationCapability(a, authorizationCondition(RemovedReason)), LAMBDA authz :
            Let([w EXCEPT !.log = Append(@, Event("lookup", AuthorinoOperator))], LAMBDA w1 :
              IF Failed(authz.err) THEN [err |-> authz.err, w |-> w1]
              ELSE DeleteCapabilities(<<sm, authz.cap>>, inst, a, w1))))
       ELSE [err |-> NoErr, w |-> w]

removeServiceMesh(inst, a, w) ==
  IF inst.serviceMesh = "nil" THEN [err |-> NoErr, w |-> w]
  ELSE IF inst.serviceMesh = "Managed"
       THEN Let(serviceMeshCapability(serviceMeshCondition(RemovedReason)), LAMBDA sm :
            Let(authorizationCapability(a, authorizationCondition(RemovedReason)), LAMBDA authz :
            Let([w EXCEPT !.log = Append(@, Event("lookup", AuthorinoOperator))], LAMBDA w1 :
              IF Failed(authz.err) THEN [err |-> authz.err, w |-> w1]
              ELSE DeleteCapabilities(<<sm, authz.cap>>, inst, a, w1))))
       ELSE [err |-> NoErr, w |-> w]

\* faulty variant: the service mesh capability is applied before the lookup
configureServiceMeshApplyingFirst(inst, a, w) ==
  Let(IF inst.serviceMesh # "nil" THEN inst.serviceMesh ELSE "Removed",
      LAMBDA serviceMeshManagementState :
    CASE serviceMeshManagementState = "Managed" ->
           Let(serviceMeshCapability(serviceMeshCondition(ConfiguredReason)), LAMBDA sm :
           Let(ApplyCapabilities(<<sm>>, inst, a, w), LAMBDA first :
             IF Failed(first.err) THEN first
             ELSE
               Let(authorizationCapability(a, authorizationCondition(ConfiguredReason)), LAMBDA authz :
               Let([first.w EXCEPT !.log = Append(@, Event("lookup", AuthorinoOperator))], LAMBDA w1 :
                 IF Failed(authz.err) THEN [err |-> authz.err, w |-> w1]
                 ELSE ApplyCapabilities(<<authz.cap>>, inst, a, w1)))))
      [] serviceMeshManagementState = "Unmanaged" -> [err |-> NoErr, w |-> w]
      [] serviceMeshManagementState = "Removed" -> removeServiceMesh(inst, a, w))

configureServiceMesh(inst, a, w) ==
  Let(IF inst.serviceMesh # "nil" THEN inst.serviceMesh ELSE "Removed",
      LAMBDA serviceMeshManagementState :
    CASE serviceMeshManagementState = "Managed" ->
           Let(serviceMeshCapability(serviceMeshCondition(ConfiguredReason)), LAMBDA sm :
           Let(authorizationCapability(a, authorizationCondition(ConfiguredReason)), LAMBDA authz :
           Let([w EXCEPT !.log = Append(@, Event("lookup", AuthorinoOperator))], LAMBDA w1 :
             IF Failed(authz.err) THEN [err |-> authz.err, w |-> w1]
             ELSE ApplyCapabilities(<<sm, authz.cap>>, inst, a, w1))))
      [] serviceMeshManagementState = "Unmanaged" -> [err |-> NoErr, w |-> w]
      [] serviceMeshManagementState = "Removed" -> removeServiceMesh(inst, a, w))

\* ---------------------------------------------------------------- actions
\* the metrics setting is read only while the service mesh is Managed
Instances ==
  {[serviceMesh |-> "nil", metrics |-> "None"]}
  \cup [serviceMesh : {"Unmanaged", "Removed"}, metrics : {"None"}]
  \cup [serviceMesh : {"Managed"}, metrics : {"Istio", "None"}]

Ready == Smcp(1, 0, 0)

\* answers no step of the pass reads are left at a fixed value
Observed(a) ==
  /\ (a.authorino = "error" => a.dataErr = "nil" /\ a.smOp)
  /\ (a.dataErr # "nil" => a.smOp)
  /\ (a.authorino = "error" \/ a.dataErr # "nil" \/ ~a.smOp => a.smcp = Ready /\ a.unready = {})

ConfigureAnswers == {a \in Answers : ~a.onDeleteErr /\ Observed(a)}
RemoveAnswers == {a \in Answers : a.smOp /\ a.smcp = Ready /\ a.unready = {}}
TestAnswers == {a \in Answers : a.smOp /\ a.smcp = Ready /\ a.unready = {}
                                 /\ a.authorino = "present" /\ a.dataErr = "nil" /\ ~a.onDeleteErr}

Canonical ==
  [smOp |-> TRUE, authorino |-> "present", smcp |-> Ready, unready |-> {},
   dataErr |-> "nil", onDeleteErr |-> FALSE]

World == [objects |-> objects, trackers |-> trackers, conditions |-> conditions, log |-> <<>>]
Snapshot == [objects |-> objects, trackers |-> trackers, conditions |-> conditions]

Events(log) == {log[i] : i \in 1..Len(log)}

\* how the most recent Apply of feature n went, after a pass with this log
\* passedPre: some Apply of the feature so far passed all its preconditions
Outcome(h, log, n) ==
  LET ran(run) == [run |-> run, skipped |-> FALSE, passedPre |-> TRUE]
  IN IF Event("removeTracker", n) \in Events(log) THEN [h EXCEPT !.run = "none", !.skipped = FALSE]
     ELSE IF Event("apply", n) \notin Events(log) THEN h
     ELSE IF Event("skip", n) \in Events(log) THEN [h EXCEPT !.skipped = TRUE]
     ELSE IF Failure("precondition", n) \in Events(log)
          THEN [h EXCEPT !.run = "failedPre", !.skipped = FALSE]
     ELSE IF Failure("postcondition", n) \in Events(log) THEN ran("failedPost")
     ELSE IF Failure("resource", n) \in Events(log) THEN ran("failedResource")
     ELSE ran("passed")

Done(op, a, r) ==
  /\ objects' = r.w.objects
  /\ trackers' = r.w.trackers
  /\ conditions' = r.w.conditions
  /\ passes' = passes + 1
  /\ history' = [n \in FeatureNames |-> Outcome(history[n], r.w.log, n)]
  /\ last' = [op |-> op, a |-> a, err |-> r.err, log |-> r.w.log, pre |-> Snapshot,
              inst |-> instance,
              again |-> last.op = op /\ last.a = a /\ last.inst = instance]
  /\ UNCHANGED <<instance, registry, lastAdd, poll>>

\* one reconciliation pass: configureServiceMesh(ctx, instance)
ConfigureServiceMesh ==
  /\ passes < MaxPasses
  /\ \E a \in ConfigureAnswers, w \in {World} :
       \E r \in {configureServiceMesh(instance, a, w)} : Done("configure", a, r)

\* the removal path: removeServiceMesh(ctx, instance)
RemoveServiceMesh ==
  /\ passes < MaxPasses
  /\ \E a \in RemoveAnswers, w \in {World} :
       \E r \in {removeServiceMesh(instance, a, w)} : Done("remove", a, r)

\* a feature tracking test applies its handler
TestApply ==
  /\ passes < MaxPasses
  /\ \E t \in Tests, a \in TestAnswers, w \in {World} :
       \E r \in {HandlerApply(ClusterFeaturesHandler(t), instance, a, w)} : Done(t, a, r)

\* an owner reference test creates a feature and applies it without a handler
FeatureTestApply ==
  /\ passes < MaxPasses
  /\ \E t \in OwnerTests, w \in {World} :
       \E r \in {FeatureApply(ownerTestFeature(t), instance, Canonical, w)} :
         Done(t, Canonical, r)

\* the user edits the DSCInitialization spec
UpdateSpec ==
  /\ \E i \in Instances \ {instance} : instance' = i
  /\ last' = [op |-> "update", a |-> Canonical, err |-> NoErr, log |-> <<>>, pre |-> Snapshot,
              inst |-> instance, again |-> FALSE]
  /\ UNCHANGED <<objects, trackers, conditions, registry, lastAdd, passes, history, poll>>

Init ==
  /\ instance \in Instances
  /\ objects = [k \in ObjectKeys |-> Absent]
  /\ trackers = [n \in FeatureNames |-> NoTracker]
  /\ conditions = [c \in Capabilities |-> NoCondition]
  /\ registry = <<>>
  /\ lastAdd = [op |-> "init", batch |-> <<>>, violations |-> {}, pre |-> <<>>]
  /\ passes = 0
  /\ history = [n \in FeatureNames |-> [run |-> "none", skipped |-> FALSE, passedPre |-> FALSE]]
  /\ poll = NoPoll
  /\ last = [op |-> "init", a |-> Canonical, err |-> NoErr, log |-> <<>>,
             pre |-> [objects |-> [k \in ObjectKeys |-> Absent],
                      trackers |-> [n \in FeatureNames |-> NoTracker],
                      conditions |-> [c \in Capabilities |-> NoCondition]],
             inst |-> instance, again |-> FALSE]

Next ==
  ConfigureServiceMesh \/ RemoveServiceMesh \/ TestApply \/ FeatureTestApply \/ UpdateSpec

Spec == Init /\ [][Next]_vars

\* ------------------------------------------------ registry construction
RegistryNames ==
  {"", "mesh-control-plane-external-authz",
   "enable-proxy-injection-in-authorino-deployment", "mesh-shared-configmap"}

Batches == UNION {[1..n -> {Define(name) : name \in RegistryNames}] : n \in 0..MaxBatch}

\* a provider calls registry.Add(features...)
RegistryAdd ==
  /\ \E batch \in Batches :
       \E r \in {Add(registry, batch)} :
         /\ registry' = r.registry
         /\ lastAdd' = [op |-> "add", batch |-> batch, violations |-> r.violations,
                        pre |-> registry]
  /\ UNCHANGED <<instance, objects, trackers, conditions, passes, history, last, poll>>

\* a pass starts from an empty registry
NewRegistry ==
  /\ registry # <<>>
  /\ registry' = <<>>
  /\ lastAdd' = [op |-> "new", batch |-> <<>>, violations |-> {}, pre |-> registry]
  /\ UNCHANGED <<instance, objects, trackers, conditions, passes, history, last, poll>>

InitRegistry == Init /\ instance = [serviceMesh |-> "Managed", metrics |-> "Istio"]

NextRegistry == RegistryAdd \/ NewRegistry

SpecRegistry == InitRegistry /\ [][NextRegistry]_vars

\* ------------------------------------------ resource producers, called alone
ResourceFns == {"MeshRefs", "AuthRefs", "EnsureAuthNamespaceExists"}
DataKeys == {"ControlPlane", "Authorization"}

\* a feature holding the given data, with or without an owner
FeatureWith(data, owned) ==
  [Define("mesh-shared-configmap") EXCEPT
     !.data = data,
     !.targetNamespace = AppNamespace,
     !.source = [type |-> DSCIType, name |-> DsciName],
     !.owned = owned]

\* a resource producer or precondition of resources.go is called on a feature
CallResource ==
  /\ \E fn \in ResourceFns, data \in SUBSET DataKeys, owned \in BOOLEAN :
       \E r \in {RunAction(Act(fn, ""), FeatureWith(data, owned), Canonical, objects)} :
         /\ objects' = r.objects
         /\ last' = [op |-> fn, data |-> data, owned |-> owned, err |-> r.err,
                     pre |-> [objects |-> objects]]
  /\ UNCHANGED <<instance, trackers, conditions, registry, lastAdd, passes, history, poll>>

\* EnsureServiceMeshInstalled is called on a feature, the cluster having or
\* not the operator subscription and showing some control plane object
CallEnsureServiceMeshInstalled ==
  /\ \E smOp \in BOOLEAN, smcp \in ControlPlaneObjects, data \in SUBSET DataKeys :
       \E a \in {[Canonical EXCEPT !.smOp = smOp, !.smcp = smcp]} :
         \E r \in {EnsureServiceMeshInstalledRun(FeatureWith(data, TRUE), a)} :
           last' = [op |-> "EnsureServiceMeshInstalled", data |-> data, owned |-> TRUE,
                    err |-> r.err, pre |-> [objects |-> objects],
                    smOp |-> smOp, smcp |-> smcp, polled |-> r.polled, checks |-> r.checks]
  /\ UNCHANGED <<instance, objects, trackers, conditions, registry, lastAdd, passes,
                 history, poll>>

InitResources == Init /\ instance = [serviceMesh |-> "Managed", metrics |-> "Istio"]

NextResources == CallResource

NextEnsure == CallEnsureServiceMeshInstalled

SpecEnsure == InitResources /\ [][NextEnsure]_vars

SpecResources == InitResources /\ [][NextResources]_vars

\* ------------------------------------------------- readiness poll, stepwise
\* the ServiceMeshMember objects a check can meet
Member(m) == [member |-> m]
MemberObjects == {Member(m) : m \in {"notfound", "malformed", "noconditions", "notready", "ready"}}

\* faulty variant: a member that cannot be fetched counts as not ready yet
CheckServiceMeshMemberTolerant(smm) ==
  CASE smm.member = "notfound" -> [ready |-> FALSE, err |-> "nil"]
    [] smm.member = "malformed" -> [ready |-> FALSE, err |-> "conditions are not a slice"]
    [] smm.member = "noconditions" -> [ready |-> FALSE, err |-> "nil"]
    [] smm.member = "notready" -> [ready |-> FALSE, err |-> "nil"]
    [] smm.member = "ready" -> [ready |-> TRUE, err |-> "nil"]

\* the check of WaitForServiceMeshMember
CheckServiceMeshMember(smm) ==
  CASE smm.member = "notfound" -> [ready |-> FALSE, err |-> "failed to get ServiceMeshMember"]
    [] smm.member = "malformed" -> [ready |-> FALSE, err |-> "conditions are not a slice"]
    [] smm.member = "noconditions" -> [ready |-> FALSE, err |-> "nil"]
    [] smm.member = "notready" -> [ready |-> FALSE, err |-> "nil"]
    [] smm.member = "ready" -> [ready |-> TRUE, err |-> "nil"]

PollKinds == {"WaitForControlPlaneToBeReady", "WaitForServiceMeshMember"}

PollObjects(kind) ==
  IF kind = "WaitForControlPlaneToBeReady" THEN ControlPlaneObjects ELSE MemberObjects

PollCheck(kind, obj) ==
  IF kind = "WaitForControlPlaneToBeReady" THEN CheckControlPlaneComponentReadiness(obj)
  ELSE CheckServiceMeshMember(obj)

Polling == poll.state = "waiting"

\* the action is called: without the control plane data it returns at once,
\* otherwise the poll starts and waits one interval before its first check
PollStart ==
  /\ poll.state = "idle"
  /\ \E kind \in PollKinds, data \in SUBSET {"ControlPlane"} :
       poll' = IF kind = "WaitForControlPlaneToBeReady" /\ "ControlPlane" \notin data
               THEN [NoPoll EXCEPT !.kind = kind, !.state = "returned", !.err = "DataNotFound"]
               ELSE [NoPoll EXCEPT !.kind = kind, !.state = "waiting"]
  /\ UNCHANGED <<instance, objects, trackers, conditions, registry, lastAdd, passes,
                 history, last>>

\* faulty variant: a failing check is taken as not ready and the poll goes on
PollTickIgnoringErrors ==
  /\ Polling
  /\ poll.elapsed + interval < duration
  /\ \E obj \in PollObjects(poll.kind) :
       \E r \in {PollCheck(poll.kind, obj)} :
         poll' = [poll EXCEPT !.elapsed = @ + interval,
                              !.checks = @ + 1,
                              !.seen = obj,
                              !.answer = r,
                              !.state = IF r.ready THEN "returned" ELSE "waiting"]
  /\ UNCHANGED <<instance, objects, trackers, conditions, registry, lastAdd, passes,
                 history, last>>

\* an interval passed before the deadline: the check is invoked once
PollTick ==
  /\ Polling
  /\ poll.elapsed + interval < duration
  /\ \E obj \in PollObjects(poll.kind) :
       \E r \in {PollCheck(poll.kind, obj)} :
         poll' = [poll EXCEPT !.elapsed = @ + interval,
                              !.checks = @ + 1,
                              !.seen = obj,
                              !.answer = r,
                              !.err = r.err,
                              !.state = IF r.ready \/ r.err # "nil" THEN "returned" ELSE "waiting"]
  /\ UNCHANGED <<instance, objects, trackers, conditions, registry, lastAdd, passes,
                 history, last>>

\* faulty variant: the poll gives up at the last check before the deadline
PollTimeoutEarly ==
  /\ Polling
  /\ poll.elapsed + 2 * interval >= duration
  /\ poll' = [poll EXCEPT !.state = "returned", !.err = "context deadline exceeded"]
  /\ UNCHANGED <<instance, objects, trackers, conditions, registry, lastAdd, passes,
                 history, last>>

\* the deadline passed before the next check: the poll returns the timeout
PollTimeout ==
  /\ Polling
  /\ poll.elapsed + interval >= duration
  /\ poll' = [poll EXCEPT !.elapsed = duration,
                          !.state = "returned",
                          !.err = "context deadline exceeded"]
  /\ UNCHANGED <<instance, objects, trackers, conditions, registry, lastAdd, passes,
                 history, last>>

\* faulty variant: the cancellation is noticed only at the deadline
PollCancelUnnoticed ==
  /\ Polling
  /\ ~poll.cancelled
  /\ poll' = [poll EXCEPT !.cancelled = TRUE]
  /\ UNCHANGED <<instance, objects, trackers, conditions, registry, lastAdd, passes,
                 history, last>>

\* the context of the pass is cancelled while the poll waits
PollCancel ==
  /\ Polling
  /\ ~poll.cancelled
  /\ poll' = [poll EXCEPT !.cancelled = TRUE,
                          !.state = "returned",
                          !.err = "context canceled"]
  /\ UNCHANGED <<instance, objects, trackers, conditions, registry, lastAdd, passes,
                 history, last>>

InitPoll == Init /\ instance = [serviceMesh |-> "Managed", metrics |-> "Istio"]

NextPoll == PollStart \/ PollTick \/ PollTimeout \/ PollCancel

SpecPoll == InitPoll /\ [][NextPoll]_vars

\* the timer of a waiting poll fires: the next check or the deadline comes
SpecPollLive == SpecPoll /\ WF_vars(PollTick \/ PollTimeout)

\* ================================================================ claims
ApplyOps == {"configure"} \cup Tests
EventsFor(n) == {e \in Events(last.log) : e.who = n}
Managed == last.inst.serviceMesh = "Managed"

\* what a feature writes when it is applied: its manifests and its config maps
Writes(f) ==
  f.manifests \cup (IF f.resources = <<>> THEN {} ELSE {"cm/service-mesh-refs", "cm/auth-refs"})

Untouched(f) ==
  /\ trackers[f.name] = last.pre.trackers[f.name]
  /\ \A k \in Writes(f) : objects[k] = last.pre.objects[k]

\* the registration orders the reconciler documents
ServiceMeshOrder ==
  <<"mesh-control-plane-creation", "mesh-metrics-collection", "mesh-shared-configmap">>
AuthorizationOrder ==
  <<"mesh-control-plane-external-authz", "enable-proxy-injection-in-authorino-deployment">>

FeatureNamed(n) ==
  CHOOSE f \in {meshControlPlaneCreation, meshMetricsCollectionFeature, meshSharedConfigmap,
                meshControlPlaneExternalAuthz, enableProxyInjectionInAuthorinoDeployment}
               \cup {testFeatureList(t)[1] : t \in Tests}
               \cup {ownerTestFeature(t) : t \in OwnerTests} :
    f.name = n

\* a pass that reached the features of the service mesh capability
ServiceMeshApplied ==
  /\ last.op = "configure"
  /\ Managed
  /\ last.a.authorino # "error"
  /\ last.a.dataErr = "nil"

\* the Apply of feature n failed in the last pass
ApplyFailed(n) ==
  /\ last.op \in ApplyOps
  /\ \E e \in EventsFor(n) : ~e.ok

\* C1: fail-fast across the features of one handler: when the Apply of a
\* feature fails, no later feature of the registration order is applied in
\* that pass (no event, no manifest, no config map, no tracker write) and the
\* pass returns the error of the failing feature.
C1_FailFast ==
  \A order \in {ServiceMeshOrder, AuthorizationOrder} :
    \A k, j \in 1..Len(order) :
      (k < j /\ ApplyFailed(order[k])) =>
        /\ EventsFor(order[j]) = {}
        /\ Untouched(FeatureNamed(order[j]))
        /\ Failed(last.err)
        /\ last.err.feature = order[k]

\* the control plane feature failed after its manifests were applied, while
\* the config maps of the last feature were still to be written
C1_Witness ==
  /\ last.op = "configure"
  /\ Failure("postcondition", "mesh-control-plane-creation") \in Events(last.log)
  /\ objects["cm/service-mesh-refs"] = Absent
  /\ last.err.feature = "mesh-control-plane-creation"

\* C2: when a precondition of a feature fails, Apply returns that feature's
\* error, none of its manifests and resource producers is applied, and its
\* tracker has phase Error with Degraded True, reason PreConditions; the
\* control plane feature fails so when the Service Mesh operator is missing.
C2_PreconditionFailure ==
  /\ \A n \in FeatureNames :
       (last.op \in ApplyOps /\ Failure("precondition", n) \in Events(last.log)) =>
         /\ Failed(last.err)
         /\ last.err.feature = n
         /\ \A e \in EventsFor(n) : e.ev \notin {"manifests", "resource", "postcondition"}
         /\ \A k \in Writes(FeatureNamed(n)) : objects[k] = last.pre.objects[k]
         /\ trackers[n].phase = "Error"
         /\ trackers[n].degraded = [status |-> "True", reason |-> "PreConditions"]
  /\ (ServiceMeshApplied /\ ~last.a.smOp) =>
       Failure("precondition", "mesh-control-plane-creation") \in Events(last.log)

\* the operator went away after a pass that had made the feature Ready
C2_Witness ==
  /\ Failure("precondition", "mesh-control-plane-creation") \in Events(last.log)
  /\ last.pre.trackers["mesh-control-plane-creation"].phase = "Ready"
  /\ trackers["mesh-control-plane-creation"].phase = "Error"

\* C3: when a postcondition of a feature fails, Apply returns that feature's
\* error and its tracker has phase Error with Degraded True, reason
\* PostConditions, while everything the Apply wrote before is still there;
\* the control plane feature fails so when its pods are not ready.
C3_PostconditionFailure ==
  /\ \A n \in FeatureNames :
       (last.op \in ApplyOps /\ Failure("postcondition", n) \in Events(last.log)) =>
         /\ Failed(last.err)
         /\ last.err.feature = n
         /\ trackers[n].phase = "Error"
         /\ trackers[n].degraded = [status |-> "True", reason |-> "PostConditions"]
         /\ \A k \in Writes(FeatureNamed(n)) : objects[k] # Absent
  /\ (ServiceMeshApplied /\ last.a.smOp /\ ControlPlaneNamespace \in last.a.unready) =>
       /\ Failure("postcondition", "mesh-control-plane-creation") \in Events(last.log)
       /\ objects["manifest/servicemesh"] # Absent
       /\ objects["ns/istio-system"] # Absent

\* the manifests were first applied by the Apply whose postcondition failed
C3_Witness ==
  /\ Failure("postcondition", "mesh-control-plane-creation") \in Events(last.log)
  /\ last.pre.objects["manifest/servicemesh"] = Absent
  /\ objects["manifest/servicemesh"] # Absent

\* C4 as stated: the tracker is Ready and Available exactly when no condition
\* failed in the most recent Apply of the feature, a skipped Apply included.
C4_AsStated ==
  \A n \in FeatureNames :
    history[n].run # "none" =>
      LET passed == history[n].skipped \/ history[n].run = "passed"
          ready == /\ trackers[n].phase = "Ready"
                   /\ trackers[n].available = [status |-> "True", reason |-> "FeatureCreated"]
      IN /\ ready <=> passed
         /\ ~passed => (trackers[n].phase = "Error" /\ trackers[n].available.status # "True")

\* C4: the tracker of a feature is Ready with Available True (FeatureCreated)
\* exactly when every precondition and postcondition passed in the most
\* recent Apply of the feature that EnabledWhen did not skip; otherwise it
\* is Error and Available is not True.
C4_TrackerReflectsLastRun ==
  \A n \in FeatureNames :
    history[n].run # "none" =>
      LET passed == history[n].run = "passed"
          ready == /\ trackers[n].phase = "Ready"
                   /\ trackers[n].available = [status |-> "True", reason |-> "FeatureCreated"]
      IN /\ trackers[n] # NoTracker
         /\ ready <=> passed
         /\ ~passed => (trackers[n].phase = "Error" /\ trackers[n].available.status # "True")

\* a feature that was Ready fails its postcondition in the next Apply
C4_Witness ==
  \E n \in FeatureNames :
    /\ history[n].run = "failedPost"
    /\ last.pre.trackers[n].phase = "Ready"
    /\ trackers[n].phase = "Error"

\* C5: the Apply of a feature whose EnabledWhen is false runs no precondition,
\* writes no object and no tracker, and succeeds: the pass goes on with the
\* next feature. The metrics feature is skipped unless metrics are "Istio".
C5_DisabledIsSkipped ==
  /\ \A n \in FeatureNames :
       Event("skip", n) \in Events(last.log) =>
         /\ EventsFor(n) = {Event("apply", n), Event("skip", n)}
         /\ Untouched(FeatureNamed(n))
  /\ (ServiceMeshApplied /\ last.inst.metrics # "Istio"
        /\ Event("apply", "mesh-metrics-collection") \in Events(last.log)) =>
       /\ Event("skip", "mesh-metrics-collection") \in Events(last.log)
       /\ Event("apply", "mesh-shared-configmap") \in Events(last.log)

\* the metrics feature was skipped on a clean cluster and the pass went on
C5_Witness ==
  /\ Event("skip", "mesh-metrics-collection") \in Events(last.log)
  /\ trackers["mesh-metrics-collection"] = NoTracker
  /\ trackers["mesh-shared-configmap"].phase = "Ready"

\* what the last pass observed of the two wrapped handlers
ReasonOf(op) == IF op = "configure" THEN "Configured" ELSE "Removed"
HandlerFailed(order) == \E e \in Events(last.log) : ~e.ok /\ \E i \in 1..Len(order) : e.who = order[i]
ServiceMeshFailed == last.a.dataErr # "nil" \/ HandlerFailed(ServiceMeshOrder)
AuthorizationFailed == HandlerFailed(AuthorizationOrder)
CapabilityPass ==
  /\ last.op \in {"configure", "remove"}
  /\ Managed
  /\ last.a.authorino # "error"

\* C6: the reporter returns the outcome of the wrapped handler and writes the
\* initial condition when the handler succeeded, the same condition with
\* status False when it failed; a failure is returned to the caller.
C6_ReporterPropagates ==
  CapabilityPass =>
    LET sm == [type |-> CapabilityServiceMesh, status |-> "True", reason |-> ReasonOf(last.op)]
        az == IF last.a.authorino = "present"
              THEN [type |-> CapabilityServiceMeshAuthorization, status |-> "True",
                    reason |-> ReasonOf(last.op)]
              ELSE [type |-> CapabilityServiceMeshAuthorization, status |-> "False",
                    reason |-> "MissingOperator"]
    IN /\ conditions[CapabilityServiceMesh] =
            IF ServiceMeshFailed THEN [sm EXCEPT !.status = "False"] ELSE sm
       /\ ServiceMeshFailed =>
            /\ Failed(last.err)
            /\ last.err.kind # "List"
            /\ conditions[CapabilityServiceMeshAuthorization]
                 = last.pre.conditions[CapabilityServiceMeshAuthorization]
       /\ ~ServiceMeshFailed =>
            /\ conditions[CapabilityServiceMeshAuthorization] =
                 IF AuthorizationFailed THEN [az EXCEPT !.status = "False"] ELSE az
            /\ Failed(last.err) <=> AuthorizationFailed
       /\ (Failed(last.err) /\ last.err.feature # "") =>
            \E e \in EventsFor(last.err.feature) : ~e.ok

\* a Delete of the authorization capability failed in its onDelete action:
\* the condition written before as True is now False, and the error returned
C6_Witness ==
  /\ last.op = "remove"
  /\ last.err.kind = "OnDelete"
  /\ last.pre.conditions[CapabilityServiceMeshAuthorization].status = "True"
  /\ conditions[CapabilityServiceMeshAuthorization] =
       [type |-> CapabilityServiceMeshAuthorization, status |-> "False", reason |-> "Removed"]

AuthorizationObjects ==
  {"manifest/authorino", "smcp/ext-provider", "manifest/authorino-injection",
   "ns/default-auth-provider"}

\* C7: without the authorino-operator subscription the authorization
\* capability is the empty handler: its Apply and Delete succeed, touch no
\* object and no tracker of the authorization features, and the condition on
\* the owner is the authorization condition, False, MissingOperator.
C7_MissingOperator ==
  (CapabilityPass /\ last.a.authorino = "absent") =>
    /\ \A i \in 1..Len(AuthorizationOrder) :
         /\ EventsFor(AuthorizationOrder[i]) = {}
         /\ trackers[AuthorizationOrder[i]] = last.pre.trackers[AuthorizationOrder[i]]
    /\ \A k \in AuthorizationObjects : objects[k] = last.pre.objects[k]
    /\ ~ServiceMeshFailed =>
         /\ ~Failed(last.err)
         /\ Event("report", CapabilityServiceMeshAuthorization) \in Events(last.log)
         /\ conditions[CapabilityServiceMeshAuthorization] =
              [type |-> CapabilityServiceMeshAuthorization, status |-> "False",
               reason |-> "MissingOperator"]

\* the operator went away after the authorization features were applied:
\* the Delete of the capability succeeds and leaves their trackers
C7_Witness ==
  /\ last.op = "remove"
  /\ Managed
  /\ last.a.authorino = "absent"
  /\ Event("capabilityDelete", CapabilityServiceMeshAuthorization) \in Events(last.log)
  /\ trackers["mesh-control-plane-external-authz"] # NoTracker
  /\ conditions[CapabilityServiceMeshAuthorization].reason = "MissingOperator"

\* C8: a pass of configureServiceMesh with management state Removed, run
\* when features were applied before, invokes Delete on the service mesh
\* capability and, unless that fails, on the authorization capability.
C8_RemovedTearsDown ==
  (/\ last.op = "configure"
   /\ last.inst.serviceMesh = "Removed"
   /\ last.a.authorino # "error"
   /\ last.pre.trackers["mesh-control-plane-creation"] # NoTracker) =>
    /\ Event("capabilityDelete", CapabilityServiceMesh) \in Events(last.log)
    /\ ~Failed(last.err) =>
         Event("capabilityDelete", CapabilityServiceMeshAuthorization) \in Events(last.log)

\* C9: a pass repeated with the same spec and the same answers of the cluster
\* leaves objects, trackers and conditions as the first pass left them.
C9_Idempotent ==
  (last.again /\ last.op \in ApplyOps) =>
    /\ objects = last.pre.objects
    /\ trackers = last.pre.trackers
    /\ conditions = last.pre.conditions

\* a successful pass repeated: every feature Ready, the config maps written
C9_Witness ==
  /\ last.again
  /\ last.op = "configure"
  /\ Managed
  /\ ~Failed(last.err)
  /\ trackers["mesh-shared-configmap"].phase = "Ready"
  /\ trackers["enable-proxy-injection-in-authorino-deployment"].phase = "Ready"
  /\ objects["cm/auth-refs"] # Absent

\* C10: Add registers the whole batch or nothing: a batch with an empty name
\* or a name used twice (in the batch or in the registry) leaves the registry
\* as it was and reports every offending feature; names stay unique.
C10_AddIsAtomic ==
  /\ lastAdd.op = "add" =>
       LET b == lastAdd.batch
           pre == lastAdd.pre
           culprits ==
             {i \in 1..Len(b) :
                \/ b[i].name = ""
                \/ \E j \in 1..Len(b) : j # i /\ b[j].name = b[i].name
                \/ \E j \in 1..Len(pre) : pre[j].name = b[i].name}
       IN /\ culprits # {} =>
               /\ registry = pre
               /\ {v.index : v \in lastAdd.violations} = culprits
          /\ culprits = {} =>
               /\ registry = pre \o b
               /\ lastAdd.violations = {}
  /\ \A i, j \in 1..Len(registry) :
       /\ registry[i].name # ""
       /\ i # j => registry[i].name # registry[j].name

\* two features of one name given to a registry that holds another feature
C10_Witness ==
  /\ lastAdd.op = "add"
  /\ Len(lastAdd.batch) = 2
  /\ lastAdd.batch[1].name = lastAdd.batch[2].name
  /\ lastAdd.batch[1].name # ""
  /\ Cardinality(lastAdd.violations) = 2
  /\ registry # <<>>
  /\ registry = lastAdd.pre

\* the features a handler bound to the DSCInitialization object applies
HandlerFeatures == FeatureNames \ OwnerTests

\* C11: the tracker of an applied feature has owner references exactly when
\* the feature was declared with an owner: the feature created with OwnedBy
\* and every feature of a handler bound to an owner have them, the feature
\* created without OwnedBy has none.
C11_OwnerReferences ==
  /\ \A n \in HandlerFeatures \cup {"empty-feat-with-owner"} :
       trackers[n] # NoTracker => trackers[n].owners # {}
  /\ trackers["empty-feat-no-owner"] # NoTracker =>
       trackers["empty-feat-no-owner"].owners = {}

\* both owner reference tests ran: one tracker with an owner, one without
C11_Witness ==
  /\ trackers["empty-feat-no-owner"].phase = "Ready"
  /\ trackers["empty-feat-no-owner"].owners = {}
  /\ trackers["empty-feat-with-owner"].phase = "Ready"
  /\ trackers["empty-feat-with-owner"].owners = {DsciName}

\* C12: every tracker written by a handler bound to the DSCInitialization
\* object has that object as its source (type DSCInitialization, name of the
\* object) and the application namespace as its appNamespace.
C12_TrackerOrigin ==
  \A n \in HandlerFeatures :
    trackers[n] # NoTracker =>
      /\ trackers[n].source = [type |-> "DSCInitialization", name |-> "default-dsci"]
      /\ trackers[n].appNamespace = "default"

\* the app namespace test ran after a pass that left a tracker in Error
C12_Witness ==
  /\ last.op = "empty-feature"
  /\ trackers["empty-feature"].appNamespace = "default"
  /\ \E n \in HandlerFeatures \ Tests :
       /\ trackers[n].phase = "Error"
       /\ trackers[n].source.name = "default-dsci"

Returned == poll.state = "returned"
TimedOut == Returned /\ poll.err = "context deadline exceeded"

\* C13: a readiness poll always returns: it invokes the check once per
\* interval while it waits, stops at the first ready answer, at the deadline
\* (5 minutes, 2 seconds apart) or when the context is cancelled, which is
\* before the deadline; no check is invoked once the poll has returned.
C13_PollTerminates ==
  /\ Polling ~> Returned
  /\ [](Polling => /\ ~poll.answer.ready
                   /\ ~poll.cancelled
                   /\ poll.elapsed = poll.checks * interval
                   /\ poll.elapsed < duration)
  /\ [](Returned => /\ poll.elapsed <= duration
                    /\ poll.checks * interval <= poll.elapsed
                    /\ poll.checks * interval < duration)
  /\ []((Returned /\ poll.answer.ready) => (poll.err = "nil" /\ poll.elapsed = poll.checks * interval))
  /\ [](poll.cancelled => /\ Returned
                          /\ poll.err = "context canceled"
                          /\ poll.elapsed < duration)
  /\ [][poll'.checks # poll.checks =>
          /\ Polling
          /\ poll'.checks = poll.checks + 1
          /\ poll'.elapsed = poll.elapsed + interval]_vars
  /\ [][Returned => poll' = poll]_vars

\* the context was cancelled after some checks, well before the deadline
C13_Witness ==
  /\ Returned
  /\ poll.cancelled
  /\ poll.checks = 3
  /\ poll.elapsed = 3 * interval

\* C14: a poll whose check never answers ready and never fails returns the
\* timeout error, and returns it at the deadline, not before; the timeout
\* error is never the error of a failed check, and a failed check never
\* yields the timeout error.
C14_TimeoutAtDeadline ==
  /\ TimedOut =>
       /\ poll.elapsed = duration
       /\ poll.checks = Cardinality(PollChecks)
       /\ ~poll.answer.ready
       /\ poll.answer.err = "nil"
  /\ (Returned /\ ~poll.cancelled /\ poll.err # "DataNotFound"
        /\ ~poll.answer.ready /\ poll.answer.err = "nil") => TimedOut
  /\ (Returned /\ poll.answer.err # "nil") =>
       /\ poll.err = poll.answer.err
       /\ poll.err # "context deadline exceeded"
  /\ PollUntilContextTimeout(LAMBDA k : [ready |-> FALSE, err |-> "nil"])
       = [err |-> "timeout", checks |-> Cardinality(PollChecks), elapsed |-> duration]

\* every check until the deadline met a control plane that was not ready
C14_Witness ==
  /\ TimedOut
  /\ poll.kind = "WaitForControlPlaneToBeReady"
  /\ poll.checks * interval = duration - interval
  /\ poll.seen = Smcp(1, 1, 0)

\* C15: the control plane is reported ready exactly when its readiness
\* status lists no pending component, no unready component and at least one
\* ready component; without any component it is not ready.
C15_ComponentReadiness ==
  (poll.kind = "WaitForControlPlaneToBeReady" /\ poll.checks > 0) =>
    LET o == poll.seen
    IN /\ poll.answer.ready <=>
            (o.found /\ o.components /\ o.pending = 0 /\ o.unready = 0 /\ o.ready >= 1)
       /\ (o.ready + o.pending + o.unready = 0) => ~poll.answer.ready
       /\ poll.answer.ready => (Returned /\ poll.err = "nil")

\* a control plane that lists no component at all keeps the poll waiting
C15_Witness ==
  /\ Polling
  /\ poll.kind = "WaitForControlPlaneToBeReady"
  /\ poll.checks = 2
  /\ poll.seen = Smcp(0, 0, 0)

\* C16 as stated: a tracker for a feature exists only if some earlier Apply
\* of that feature passed all its preconditions.
C16_AsStated ==
  \A n \in FeatureNames : trackers[n] # NoTracker => history[n].passedPre

\* C16: a tracker for a feature exists only if some Apply of that feature,
\* since the tracker was last removed, was not skipped by EnabledWhen and
\* evaluated the preconditions, whether they passed or failed.
C16_TrackerNeedsApply ==
  /\ \A n \in FeatureNames : trackers[n] # NoTracker => history[n].run # "none"
  /\ \A n \in FeatureNames :
       (trackers[n] # NoTracker /\ ~history[n].passedPre) =>
         /\ trackers[n].phase = "Error"
         /\ trackers[n].degraded.reason = "PreConditions"

\* the first Apply of the control plane feature failed a precondition while
\* the metrics feature, never reached, has no tracker
C16_Witness ==
  /\ trackers["mesh-control-plane-creation"].phase = "Error"
  /\ ~history["mesh-control-plane-creation"].passedPre
  /\ trackers["mesh-metrics-collection"] = NoTracker
  /\ history["mesh-metrics-collection"].run = "none"

\* the Delete of feature n ran in the last pass
Deleted(n) == last.op = "remove" /\ Event("delete", n) \in Events(last.log)

\* event e is logged before event g in the last pass
Before(e, g) ==
  \E i, j \in 1..Len(last.log) : i < j /\ last.log[i] = e /\ last.log[j] = g

\* C17: a Delete whose onDelete action does not fail succeeds and leaves no
\* tracker for the feature, whether or not the feature was ever applied or
\* is enabled; the onDelete action of the external authorization feature
\* runs before its tracker is removed; a Delete pass in which nothing fails
\* deletes every feature of the capabilities it reaches.
C17_DeleteSucceedsOnAbsence ==
  /\ \A n \in FeatureNames :
       (Deleted(n) /\ Failure("onDelete", n) \notin Events(last.log)) =>
         /\ trackers[n] = NoTracker
         /\ Event("removeTracker", n) \in Events(last.log)
         /\ last.err.feature # n
  /\ Deleted("mesh-control-plane-external-authz") =>
       /\ \E e \in EventsFor("mesh-control-plane-external-authz") : e.ev = "onDelete"
       /\ Event("removeTracker", "mesh-control-plane-external-authz") \in Events(last.log) =>
            Before(Event("onDelete", "mesh-control-plane-external-authz"),
                   Event("removeTracker", "mesh-control-plane-external-authz"))
  /\ (last.op = "remove" /\ Managed /\ last.a.authorino # "error"
        /\ last.a.dataErr = "nil" /\ ~last.a.onDeleteErr) =>
       /\ ~Failed(last.err)
       /\ \A i \in 1..Len(ServiceMeshOrder) :
            Deleted(ServiceMeshOrder[i]) /\ trackers[ServiceMeshOrder[i]] = NoTracker
       /\ last.a.authorino = "present" =>
            \A i \in 1..Len(AuthorizationOrder) :
              Deleted(AuthorizationOrder[i]) /\ trackers[AuthorizationOrder[i]] = NoTracker

\* the capabilities are deleted on a cluster where no feature was ever
\* applied and the metrics feature is disabled
C17_Witness ==
  /\ last.op = "remove"
  /\ Managed
  /\ last.inst.metrics = "None"
  /\ ~Failed(last.err)
  /\ \A n \in FeatureNames : last.pre.trackers[n] = NoTracker
  /\ \A k \in ObjectKeys : last.pre.objects[k] = Absent
  /\ Deleted("mesh-metrics-collection")
  /\ Deleted("mesh-control-plane-external-authz")

\* the data key a resource producer extracts from its feature
Needs(fn) == IF fn = "MeshRefs" THEN "ControlPlane" ELSE "Authorization"

\* the object a resource producer writes, and its content
Target(fn) ==
  CASE fn = "MeshRefs" -> "cm/service-mesh-refs"
    [] fn = "AuthRefs" -> "cm/auth-refs"
    [] fn = "EnsureAuthNamespaceExists" -> "ns/default-auth-provider"
Content(fn) ==
  CASE fn = "MeshRefs" -> <<"data-science-smcp", "istio-system">>
    [] fn = "AuthRefs" ->
         <<"https://kubernetes.default.svc,odh", "default-auth-provider",
           "security.opendatahub.io/authorization-group=default">>
    [] fn = "EnsureAuthNamespaceExists" -> <<>>

\* C18: MeshRefs, AuthRefs and EnsureAuthNamespaceExists called on a feature
\* that lacks the data they extract return the data-not-found error, which
\* no other outcome yields, and leave every object as it was; with the data
\* they succeed and the object they write exists with the feature's values.
C18_DataNotFound ==
  last.op \in ResourceFns =>
    /\ (Needs(last.op) \notin last.data) =>
         /\ last.err = "DataNotFound"
         /\ objects = last.pre.objects
    /\ (Needs(last.op) \in last.data) =>
         /\ last.err = "nil"
         /\ objects[Target(last.op)] # Absent
         /\ objects[Target(last.op)].data = Content(last.op)
         /\ \A k \in ObjectKeys \ {Target(last.op)} : objects[k] = last.pre.objects[k]

\* AuthRefs fails on a feature holding only the control plane data, after
\* MeshRefs wrote its config map for the same feature
C18_Witness ==
  /\ last.op = "AuthRefs"
  /\ last.data = {"ControlPlane"}
  /\ last.err = "DataNotFound"
  /\ objects["cm/service-mesh-refs"] # Absent
  /\ objects["cm/auth-refs"] = Absent

\* the features applied in the last pass, in the order of their Apply
RECURSIVE AppliedIn(_)
AppliedIn(log) ==
  IF log = <<>> THEN <<>>
  ELSE IF Head(log).ev = "apply" THEN <<Head(log).who>> \o AppliedIn(Tail(log))
       ELSE AppliedIn(Tail(log))

\* the number of events ev of feature n in the log
RECURSIVE Count(_, _, _)
Count(log, ev, n) ==
  IF log = <<>> THEN 0
  ELSE (IF Head(log).ev = ev /\ Head(log).who = n THEN 1 ELSE 0) + Count(Tail(log), ev, n)

IsPrefix(s, t) == Len(s) <= Len(t) /\ \A i \in 1..Len(s) : s[i] = t[i]

\* C19: in one pass every registered feature is applied at most once and in
\* registration order, each of its conditions is evaluated at most once, and
\* every pass that reaches the features starts at the first registered one
\* and evaluates its preconditions again, whatever the pass before did.
C19_NoRetryInPass ==
  /\ last.op = "configure" =>
       IsPrefix(AppliedIn(last.log), ServiceMeshOrder \o AuthorizationOrder)
  /\ last.op \in Tests => AppliedIn(last.log) = <<last.op>>
  /\ last.op \in ApplyOps =>
       \A n \in HandlerFeatures :
         /\ Count(last.log, "apply", n) <= 1
         /\ Count(last.log, "precondition", n) <= Len(FeatureNamed(n).preconditions)
         /\ Count(last.log, "postcondition", n) <= Len(FeatureNamed(n).postconditions)
         /\ Count(last.log, "manifests", n) <= 1
         /\ Count(last.log, "tracker", n) <= 1
  /\ ServiceMeshApplied =>
       /\ AppliedIn(last.log) # <<>>
       /\ Head(AppliedIn(last.log)) = "mesh-control-plane-creation"
       /\ Count(last.log, "precondition", "mesh-control-plane-creation") >= 1
       /\ (Failed(last.err) /\ last.err.feature # "") =>
            last.err.feature = AppliedIn(last.log)[Len(AppliedIn(last.log))]

\* the pass before stopped at the metrics feature; this pass started again
\* at the control plane feature and stopped at the metrics feature again
C19_Witness ==
  /\ last.op = "configure"
  /\ last.pre.trackers["mesh-metrics-collection"].phase = "Error"
  /\ last.pre.trackers["mesh-shared-configmap"] = NoTracker
  /\ AppliedIn(last.log) = <<"mesh-control-plane-creation", "mesh-metrics-collection">>
  /\ Count(last.log, "precondition", "mesh-control-plane-creation") = 2
  /\ last.err.feature = "mesh-metrics-collection"

\* the last pass did nothing at all
NoEffect ==
  /\ last.log = <<>>
  /\ ~Failed(last.err)
  /\ objects = last.pre.objects
  /\ trackers = last.pre.trackers
  /\ conditions = last.pre.conditions

\* C20: removeServiceMesh invokes Delete on the capabilities only when the
\* ServiceMesh spec is present with state Managed; with the spec absent or
\* the state Removed or Unmanaged it returns nil, invokes no Apply and no
\* Delete and changes no object, tracker or condition; so does a pass of
\* configureServiceMesh that takes an absent spec as Removed.
C20_RemoveOnlyWhenManaged ==
  /\ last.op = "remove" =>
       /\ \A e \in Events(last.log) : e.ev \notin {"capabilityApply", "apply"}
       /\ (last.inst.serviceMesh = "Managed" /\ last.a.authorino # "error") =>
            Event("capabilityDelete", CapabilityServiceMesh) \in Events(last.log)
       /\ (\E e \in Events(last.log) : e.ev = "capabilityDelete") =>
            last.inst.serviceMesh = "Managed"
       /\ last.inst.serviceMesh \in {"nil", "Removed", "Unmanaged"} => NoEffect
  /\ (last.op = "configure" /\ last.inst.serviceMesh \in {"nil", "Removed"}) => NoEffect

\* removeServiceMesh ran in state Removed on a cluster where the features
\* had been applied, and left them
C20_Witness ==
  /\ last.op = "remove"
  /\ last.inst.serviceMesh = "Removed"
  /\ last.pre.trackers["mesh-control-plane-creation"].phase = "Ready"
  /\ trackers["mesh-control-plane-creation"].phase = "Ready"
  /\ objects["manifest/servicemesh"] # Absent
  /\ NoEffect

\* the capability event of the last pass: Apply when configuring, Delete when removing
CapabilityEvent(type) ==
  Event(IF last.op = "configure" THEN "capabilityApply" ELSE "capabilityDelete", type)

\* C21: configureServiceMesh applies the service mesh capability before the
\* authorization capability and stops at the first failure: when the service
\* mesh capability fails, the authorization capability is not invoked, none
\* of its features runs, its condition is not written and the error is
\* returned; removeServiceMesh does the same with Delete.
C21_CapabilityFailFast ==
  CapabilityPass =>
    /\ CapabilityEvent(CapabilityServiceMesh) \in Events(last.log)
    /\ \A e \in Events(last.log) :
         e.ev \in {"capabilityApply", "capabilityDelete"} =>
           e \in {CapabilityEvent(CapabilityServiceMesh),
                  CapabilityEvent(CapabilityServiceMeshAuthorization)}
    /\ CapabilityEvent(CapabilityServiceMeshAuthorization) \in Events(last.log) =>
         /\ ~ServiceMeshFailed
         /\ Before(CapabilityEvent(CapabilityServiceMesh),
                   CapabilityEvent(CapabilityServiceMeshAuthorization))
         /\ Before(Event("report", CapabilityServiceMesh),
                   CapabilityEvent(CapabilityServiceMeshAuthorization))
    /\ ServiceMeshFailed =>
         /\ Failed(last.err)
         /\ CapabilityEvent(CapabilityServiceMeshAuthorization) \notin Events(last.log)
         /\ Event("report", CapabilityServiceMeshAuthorization) \notin Events(last.log)
         /\ \A i \in 1..Len(AuthorizationOrder) :
              /\ EventsFor(AuthorizationOrder[i]) = {}
              /\ trackers[AuthorizationOrder[i]] = last.pre.trackers[AuthorizationOrder[i]]
         /\ conditions[CapabilityServiceMeshAuthorization]
              = last.pre.conditions[CapabilityServiceMeshAuthorization]
    /\ ~ServiceMeshFailed =>
         CapabilityEvent(CapabilityServiceMeshAuthorization) \in Events(last.log)

\* the service mesh capability failed in a pass that follows one in which
\* the authorization capability had been applied: its condition stays True
C21_Witness ==
  /\ last.op = "configure"
  /\ Managed
  /\ ServiceMeshFailed
  /\ Failed(last.err)
  /\ last.pre.conditions[CapabilityServiceMeshAuthorization].status = "True"
  /\ conditions[CapabilityServiceMeshAuthorization].status = "True"
  /\ conditions[CapabilityServiceMesh].status = "False"

\* C22: in a Managed pass the authorino-operator subscription is looked up
\* before any capability is applied; when the lookup fails, the pass returns
\* that error, no capability Apply and no feature has run, and no condition,
\* tracker or object is written.
C22_LookupBeforeApply ==
  (last.op = "configure" /\ Managed) =>
    /\ Event("lookup", AuthorinoOperator) \in Events(last.log)
    /\ last.log[1] = Event("lookup", AuthorinoOperator)
    /\ last.a.authorino = "error" =>
         /\ Failed(last.err)
         /\ last.err.kind = "List"
         /\ last.log = <<Event("lookup", AuthorinoOperator)>>
         /\ objects = last.pre.objects
         /\ trackers = last.pre.trackers
         /\ conditions = last.pre.conditions
    /\ last.a.authorino # "error" =>
         /\ last.err.kind # "List"
         /\ Before(Event("lookup", AuthorinoOperator),
                   Event("capabilityApply", CapabilityServiceMesh))

\* the lookup failed in a pass that follows one which configured the mesh:
\* the conditions written then are still there
C22_Witness ==
  /\ last.op = "configure"
  /\ Managed
  /\ last.a.authorino = "error"
  /\ last.err.kind = "List"
  /\ last.pre.conditions[CapabilityServiceMesh].status = "True"
  /\ conditions[CapabilityServiceMesh] =
       [type |-> CapabilityServiceMesh, status |-> "True", reason |-> "Configured"]
  /\ trackers["mesh-control-plane-creation"].phase = "Ready"

\* the polled object cannot be fetched or read
Unreadable(kind, obj) ==
  IF kind = "WaitForControlPlaneToBeReady" THEN ~obj.found \/ ~obj.components
  ELSE obj.member \in {"notfound", "malformed"}

\* C23: a check that cannot fetch or read the polled object ends the poll at
\* that check with the check's error, not the deadline error; a poll still
\* waiting has only seen objects that were read and were not ready.
C23_CheckErrorEndsPoll ==
  /\ (poll.checks > 0 /\ Unreadable(poll.kind, poll.seen)) =>
       /\ Returned
       /\ poll.answer.err # "nil"
       /\ poll.err = poll.answer.err
       /\ poll.err \notin {"context deadline exceeded", "context canceled"}
       /\ poll.elapsed = poll.checks * interval
       /\ poll.elapsed < duration
  /\ (Polling /\ poll.checks > 0) =>
       /\ ~Unreadable(poll.kind, poll.seen)
       /\ poll.answer = [ready |-> FALSE, err |-> "nil"]
  /\ (Returned /\ poll.answer.err # "nil") => Unreadable(poll.kind, poll.seen)
  /\ PollUntilContextTimeout(LAMBDA k : CheckControlPlaneComponentReadiness(NoStatus))
       = [err |-> "status conditions not found", checks |-> 1, elapsed |-> interval]

\* the member was not ready at two checks and could not be fetched at the third
C23_Witness ==
  /\ Returned
  /\ poll.kind = "WaitForServiceMeshMember"
  /\ poll.seen = Member("notfound")
  /\ poll.checks = 3
  /\ poll.elapsed = 3 * interval
  /\ poll.err = "failed to get ServiceMeshMember"

\* the authorization capability reported in the last pass, a removal
AuthorizationRemovalReported ==
  /\ last.op = "remove"
  /\ Managed
  /\ Event("report", CapabilityServiceMeshAuthorization) \in Events(last.log)

\* C24: when removeServiceMesh deletes the authorization capability and the
\* authorino operator is absent, the condition written on the owner is
\* MissingOperator with status False, not Removed; Removed with status True
\* is written only when the subscription exists and the Delete of the real
\* handler succeeded, and Removed with status False when that Delete failed.
C24_RemovalCondition ==
  AuthorizationRemovalReported =>
    LET c == conditions[CapabilityServiceMeshAuthorization]
    IN /\ c.type = CapabilityServiceMeshAuthorization
       /\ last.a.authorino = "absent" =>
            /\ c.status = "False"
            /\ c.reason = "MissingOperator"
            /\ ~Failed(last.err)
       /\ c.reason = "Removed" => last.a.authorino = "present"
       /\ (c.reason = "Removed" /\ c.status = "True") <=>
            (last.a.authorino = "present" /\ ~AuthorizationFailed /\ ~Failed(last.err))
       /\ (last.a.authorino = "present" /\ AuthorizationFailed) =>
            (c.reason = "Removed" /\ c.status = "False" /\ Failed(last.err))

\* the capabilities are removed after the operator went away: the service
\* mesh condition is Removed, the authorization condition MissingOperator
C24_Witness ==
  /\ AuthorizationRemovalReported
  /\ last.a.authorino = "absent"
  /\ last.pre.conditions[CapabilityServiceMeshAuthorization] =
       [type |-> CapabilityServiceMeshAuthorization, status |-> "True", reason |-> "Configured"]
  /\ conditions[CapabilityServiceMeshAuthorization] =
       [type |-> CapabilityServiceMeshAuthorization, status |-> "False",
        reason |-> "MissingOperator"]
  /\ conditions[CapabilityServiceMesh] =
       [type |-> CapabilityServiceMesh, status |-> "True", reason |-> "Removed"]

\* C25: EnsureServiceMeshInstalled checks the Service Mesh operator first:
\* without the subscription it returns the operator error and the readiness
\* poll of the control plane is not started; it returns nil only when the
\* operator is installed and a check of the poll reported the control plane
\* ready; a poll that ends otherwise yields an error.
C25_OperatorBeforeControlPlane ==
  last.op = "EnsureServiceMeshInstalled" =>
    LET o == last.smcp
        ready == o.found /\ o.components /\ o.pending = 0 /\ o.unready = 0 /\ o.ready >= 1
    IN /\ ~last.smOp =>
            /\ last.err = "failed to find the pre-requisite Service Mesh Operator subscription"
            /\ ~last.polled
            /\ last.checks = 0
       /\ last.polled => (last.smOp /\ "ControlPlane" \in last.data /\ last.checks >= 1)
       /\ (last.smOp /\ "ControlPlane" \in last.data) => last.polled
       /\ last.err = "nil" <=> (last.smOp /\ "ControlPlane" \in last.data /\ ready)
       /\ last.err = "nil" => (last.polled /\ last.checks = 1)
       /\ (last.polled /\ ~ready) => last.err = "service mesh control plane is not ready"
       /\ objects = last.pre.objects

\* the operator is missing while the control plane object is there and ready
C25_Witness ==
  /\ last.op = "EnsureServiceMeshInstalled"
  /\ ~last.smOp
  /\ last.smcp = Smcp(1, 0, 0)
  /\ last.data = {"ControlPlane", "Authorization"}
  /\ ~last.polled
  /\ last.err # "nil"

====
